---------------------------- MODULE Spec2Model ----------------------------
(***************************************************************************)
(* A model of the two operator utilities of the home-automation            *)
(* repository:                                                             *)
(*                                                                         *)
(*   scripts/check_compose_images.py  the image version checker: the tag   *)
(*       heuristic choose_newer_tag and the per-image loop of main;        *)
(*   scripts/docker_volume_sync.py    the volume synchronizer: the         *)
(*       whitelist filter, sync_volume_to_config, clean_orphaned_files,    *)
(*       git_add_and_commit and sync_all_volumes.                          *)
(*                                                                         *)
(* Strings whose characters the code inspects (tags, relative paths, glob  *)
(* patterns) are sequences of one-character strings, so that splitting,    *)
(* parsing and matching are computed and not assumed.  Python's None is    *)
(* the empty sequence and a present value x is <<x>>.                      *)
(***************************************************************************)
EXTENDS Integers, Sequences, FiniteSets, TLC

VARIABLES
    \* ---- choose_newer_tag, called on its own (SpecTag)
    old_tag,        \* the tag the compose file uses
    all_tags,       \* the tag list of the repository
    tag_result,     \* None before the call, then <<new_tag, note>>
    \* ---- should_include_file, called on its own (SpecFilter)
    f_whitelist,    \* the whitelist configuration (service -> patterns)
    f_service,      \* the service asked about
    f_path,         \* the relative path asked about
    f_result,       \* None before the call, then Some(TRUE) or Some(FALSE)
    \* ---- main of the image checker (SpecMain)
    files_found,    \* whether find_compose_files found a compose file
    refs,           \* the normalized image references, in processing order
    ref_i,          \* index of the next reference of the loop
    hub_cache,      \* repo -> None (not cached) or Some(tag list)
    rows,           \* the status rows printed so far
    list_log,       \* the dockerhub_list_tags calls made so far
    exit_code,      \* None while running, then Some(code)
    \* ---- the volume synchronizer (SpecSync)
    dry_run,        \* DockerVolumeSync.dry_run
    whitelist_patterns, \* DockerVolumeSync.whitelist_patterns
    src,            \* volume -> (relative path -> stat) of the volume's files
    tgt,            \* volume -> [root, dirs, files] of its target directory
    git_issued,     \* the git add and git commit commands issued in this run
    sync_pc,        \* position inside sync_all_volumes
    phase,          \* progress of one volume through consecutive runs
    src_changes     \* how often the volumes' contents were changed so far

vars == <<old_tag, all_tags, tag_result,
          f_whitelist, f_service, f_path, f_result,
          files_found, refs, ref_i, hub_cache, rows, list_log, exit_code,
          dry_run, whitelist_patterns, src, tgt, git_issued, sync_pc,
          phase, src_changes>>

tagVars == <<old_tag, all_tags, tag_result>>
filterVars == <<f_whitelist, f_service, f_path, f_result>>
mainVars == <<files_found, refs, ref_i, hub_cache, rows, list_log, exit_code>>
syncVars == <<dry_run, whitelist_patterns, src, tgt, git_issued, sync_pc,
              phase, src_changes>>

-----------------------------------------------------------------------------
(* Bounds of the model. *)

\* longest tag list handed to choose_newer_tag
MaxTags == 3

\* longest include and exclude pattern list of a service
MaxPatterns == 2

\* number of image references of one run of the image checker
MaxRefs == 3

\* how often the environment rewrites a volume's contents
MaxSrcChanges == 2

-----------------------------------------------------------------------------
(* Strings as character sequences. *)

None == << >>
Some(x) == <<x>>

\* all sequences over S of length at most n
SeqsUpTo(S, n) == UNION {[1..k -> S] : k \in 0..n}

StartsWith(s, p) == Len(s) >= Len(p) /\ SubSeq(s, 1, Len(p)) = p

\* index of the first occurrence of character c in s, 0 when there is none
FirstIndex(s, c) ==
    IF \E i \in 1..Len(s) : s[i] = c
    THEN CHOOSE i \in 1..Len(s) : s[i] = c /\ \A j \in 1..(i - 1) : s[j] # c
    ELSE 0

\* index of the last occurrence of character c in s, 0 when there is none
LastIndex(s, c) ==
    IF \E i \in 1..Len(s) : s[i] = c
    THEN CHOOSE i \in 1..Len(s) : s[i] = c /\ \A j \in (i + 1)..Len(s) : s[j] # c
    ELSE 0

\* str.split(c): the parts of s between the occurrences of c
RECURSIVE Split(_, _)
Split(s, c) ==
    LET i == FirstIndex(s, c)
    IN  IF i = 0 THEN <<s>>
        ELSE <<SubSeq(s, 1, i - 1)>> \o Split(SubSeq(s, i + 1, Len(s)), c)

Digits == {"0", "1", "2", "3", "4", "5", "6", "7", "8", "9"}

DigitVal(c) ==
    CASE c = "0" -> 0 [] c = "1" -> 1 [] c = "2" -> 2 [] c = "3" -> 3
      [] c = "4" -> 4 [] c = "5" -> 5 [] c = "6" -> 6 [] c = "7" -> 7
      [] c = "8" -> 8 [] c = "9" -> 9

IsDigits(s) == Len(s) > 0 /\ \A i \in 1..Len(s) : s[i] \in Digits

\* int() of a string of decimal digits
RECURSIVE ToInt(_)
ToInt(s) ==
    IF Len(s) = 0 THEN 0
    ELSE ToInt(SubSeq(s, 1, Len(s) - 1)) * 10 + DigitVal(s[Len(s)])

Max(a, b) == IF a >= b THEN a ELSE b

\* a Python dict is a function on its keys; {} is the empty function
EmptyDict == [k \in {} |-> << >>]

\* dict.get(key, default)
DictGet(d, key, default) == IF key \in DOMAIN d THEN d[key] ELSE default

-----------------------------------------------------------------------------
(* check_compose_images.py: the version heuristic. *)

Sha256Prefix == <<"s", "h", "a", "2", "5", "6", ":">>

\* split_suffix: <<base, suffix>>, split on the first hyphen; the suffix is
\* None when the tag has no hyphen or starts with "sha256:"
split_suffix(tag) ==
    LET i == FirstIndex(tag, "-")
    IN  IF i > 0 /\ ~StartsWith(tag, Sha256Prefix)
        THEN <<SubSeq(tag, 1, i - 1), Some(SubSeq(tag, i + 1, Len(tag)))>>
        ELSE <<tag, None>>

\* SEMVER_RE = ^v?(\d+)(?:\.(\d+))?(?:\.(\d+))?$ : an optional "v", then one
\* to three groups of digits separated by dots; "$" also matches before
\* a final newline.  The groups of a match, None when there is no match.
semver_groups(s) ==
    LET s1 == IF Len(s) > 0 /\ s[Len(s)] = "\n"
              THEN SubSeq(s, 1, Len(s) - 1) ELSE s
        body == IF Len(s1) > 0 /\ s1[1] = "v"
                THEN SubSeq(s1, 2, Len(s1)) ELSE s1
        parts == Split(body, ".")
    IN  IF Len(parts) \in 1..3 /\ \A k \in 1..Len(parts) : IsDigits(parts[k])
        THEN Some(parts) ELSE None

\* parse_semverish: None, or Some(<<maj, minor, patch, had_v>>) with -1 for
\* a missing minor or patch
parse_semverish(s) ==
    LET m == semver_groups(s)
    IN  IF m = None THEN None
        ELSE LET g == m[1]
             IN  Some(<<ToInt(g[1]),
                        IF Len(g) >= 2 THEN ToInt(g[2]) ELSE -1,
                        IF Len(g) >= 3 THEN ToInt(g[3]) ELSE -1,
                        Len(s) > 0 /\ s[1] = "v">>)

\* semver_sort_key: missing parts rank as 0
semver_sort_key(v) == <<v[1], Max(v[2], 0), Max(v[3], 0)>>

\* Python's tuple order on keys: a <= b
KeyLE(a, b) ==
    \/ a[1] < b[1]
    \/ a[1] = b[1] /\ a[2] < b[2]
    \/ a[1] = b[1] /\ a[2] = b[2] /\ a[3] <= b[3]

\* sorted(pool, key=...) is stable: an element goes after every element
\* whose key is not greater
RECURSIVE InsertByKey(_, _)
InsertByKey(sorted, x) ==
    IF sorted = << >> THEN <<x>>
    ELSE LET last == sorted[Len(sorted)]
         IN  IF KeyLE(semver_sort_key(last[2]), semver_sort_key(x[2]))
             THEN Append(sorted, x)
             ELSE Append(InsertByKey(SubSeq(sorted, 1, Len(sorted) - 1), x), last)

RECURSIVE SortedByKey(_)
SortedByKey(pool) ==
    IF pool = << >> THEN << >>
    ELSE InsertByKey(SortedByKey(SubSeq(pool, 1, Len(pool) - 1)), pool[Len(pool)])

FloatingTags == {<<"l", "a", "t", "e", "s", "t">>, <<"s", "t", "a", "b", "l", "e">>}

NoteFloating == "is not a version tag"
NoteNotSemver == "tag not semver-like; no safe upgrade suggestion"
NoteNoCandidates == "no semver-like candidate tags found"
NoteNoSameMajor == "no newer tag found in same major"
NoteCurrent == "already at newest matching tag"
NoteNewer == "newer version available"

\* Candidates without the suffix test of line 248
Candidates_AnySuffix(old_suffix, tags) ==
    LET keep == SelectSeq(tags, LAMBDA t : parse_semverish(split_suffix(t)[1]) # None)
    IN  [k \in 1..Len(keep) |-> <<keep[k], parse_semverish(split_suffix(keep[k])[1])[1]>>]

\* the candidates of choose_newer_tag: the tags of all_tags, in order, with
\* the old tag's suffix and a semver-like base, each with its parse
Candidates(old_suffix, tags) ==
    LET keep == SelectSeq(tags, LAMBDA t :
                    /\ split_suffix(t)[2] = old_suffix
                    /\ parse_semverish(split_suffix(t)[1]) # None)
    IN  [k \in 1..Len(keep) |-> <<keep[k], parse_semverish(split_suffix(keep[k])[1])[1]>>]

\* the preferred pool: same major and, when the old tag has a minor, same minor
Preferred(old_v, candidates) ==
    SelectSeq(candidates, LAMBDA c :
        /\ c[2][1] = old_v[1]
        /\ (old_v[2] >= 0 => c[2][2] = old_v[2]))

\* the fallback pool: same major, another minor, when the old tag has a minor
Fallback(old_v, candidates) ==
    SelectSeq(candidates, LAMBDA c :
        /\ c[2][1] = old_v[1]
        /\ old_v[2] >= 0
        /\ c[2][2] # old_v[2])

\* PickBest that compares with the old tag's key without its patch
PickBest_IgnoresOldPatch(old_v, pool) ==
    LET pool_sorted == SortedByKey(pool)
        best == pool_sorted[Len(pool_sorted)]
    IN  IF KeyLE(semver_sort_key(best[2]), <<old_v[1], Max(old_v[2], 0), 0>>)
        THEN <<None, NoteCurrent>>
        ELSE <<Some(best[1]), NoteNewer>>

\* PickBest with "<" for the "<=" of line 283
PickBest_NotStrict(old_v, pool) ==
    LET pool_sorted == SortedByKey(pool)
        best == pool_sorted[Len(pool_sorted)]
    IN  IF /\ KeyLE(semver_sort_key(best[2]), semver_sort_key(old_v))
           /\ semver_sort_key(best[2]) # semver_sort_key(old_v)
        THEN <<None, NoteCurrent>>
        ELSE <<Some(best[1]), NoteNewer>>

\* the last element of the sorted pool, returned only when its key is
\* strictly greater than the old tag's
PickBest(old_v, pool) ==
    LET pool_sorted == SortedByKey(pool)
        best == pool_sorted[Len(pool_sorted)]
    IN  IF KeyLE(semver_sort_key(best[2]), semver_sort_key(old_v))
        THEN <<None, NoteCurrent>>
        ELSE <<Some(best[1]), NoteNewer>>

\* ChooseInPool that picks among the preferred and the fallback list alike
ChooseInPool_NoPreference(old_v, preferred, fallback) ==
    IF preferred \o fallback # << >> THEN PickBest(old_v, preferred \o fallback)
    ELSE <<None, NoteNoSameMajor>>

\* lines 274-286: the pool is the preferred list, or the fallback list when
\* the preferred one is empty; nothing is suggested from an empty pool
ChooseInPool(old_v, preferred, fallback) ==
    IF preferred # << >> THEN PickBest(old_v, preferred)
    ELSE IF fallback # << >> THEN PickBest(old_v, fallback)
    ELSE <<None, NoteNoSameMajor>>

\* lines 255-272: nothing is suggested when no tag is a candidate
ChooseAmong(old_v, candidates) ==
    IF candidates = << >> THEN <<None, NoteNoCandidates>>
    ELSE ChooseInPool(old_v, Preferred(old_v, candidates), Fallback(old_v, candidates))

\* lines 238-253: nothing is suggested for an old tag that is not semver-like
ChooseParsed(old_p, old_suffix, tags) ==
    IF old_p = None THEN <<None, NoteNotSemver>>
    ELSE ChooseAmong(old_p[1], Candidates(old_suffix, tags))

\* choose_newer_tag without the floating-tag test of lines 234-235
choose_newer_tag_NoFloating(old, tags) ==
    ChooseParsed(parse_semverish(split_suffix(old)[1]), split_suffix(old)[2], tags)

\* choose_newer_tag: <<new_tag, note>>, new_tag None when nothing is suggested
choose_newer_tag(old, tags) ==
    IF old \in FloatingTags THEN <<None, NoteFloating>>
    ELSE ChooseParsed(parse_semverish(split_suffix(old)[1]), split_suffix(old)[2], tags)

\* The tags the heuristic is tried on: the floating markers, a tag that is
\* not semver-like, plain and suffixed versions of two majors, a "v" form,
\* a version with a patch, and a tag whose suffix is the empty string.
TagPool ==
    FloatingTags \cup
    { <<"m", "a", "i", "n">>,
      <<"1">>,
      <<"1", ".", "1">>,
      <<"v", "1", ".", "1">>,
      <<"1", ".", "1", ".", "1">>,
      <<"1", ".", "2">>,
      <<"1", ".", "1", "-", "a">>,
      <<"1", ".", "2", "-", "a">>,
      <<"2", ".", "0">>,
      <<"1", ".", "3", "-">> }

\* the variables of the other parts of the model, at rest
FilterIdle ==
    /\ f_whitelist = << >> /\ f_service = "" /\ f_path = << >> /\ f_result = None

MainIdle ==
    /\ files_found = FALSE /\ refs = << >> /\ ref_i = 0 /\ hub_cache = << >>
    /\ rows = << >> /\ list_log = << >> /\ exit_code = None

SyncIdle ==
    /\ dry_run = FALSE /\ whitelist_patterns = << >> /\ src = << >> /\ tgt = << >>
    /\ git_issued = {} /\ sync_pc = << >> /\ phase = << >>
    /\ src_changes = 0

TagIdle ==
    /\ old_tag = << >> /\ all_tags = << >> /\ tag_result = None

\* choose_newer_tag on every old tag and every tag list of the pool
InitTag ==
    /\ old_tag \in TagPool
    /\ all_tags \in SeqsUpTo(TagPool, MaxTags)
    /\ tag_result = None
    /\ FilterIdle /\ MainIdle /\ SyncIdle

CallChooseNewerTag ==
    /\ tag_result = None
    /\ tag_result' = choose_newer_tag(old_tag, all_tags)
    /\ UNCHANGED <<old_tag, all_tags, filterVars, mainVars, syncVars>>

NextTag == CallChooseNewerTag

SpecTag == InitTag /\ [][NextTag]_vars

-----------------------------------------------------------------------------
(* check_compose_images.py: main, the loop over the image references. *)

DockerHub == <<"d", "o", "c", "k", "e", "r", ".", "i", "o">>

TagLatest == <<"l", "a", "t", "e", "s", "t">>
Tag11 == <<"1", ".", "1">>
Tag12 == <<"1", ".", "2">>

\* s[i:] and s[:i] of a string, i a 1-based index
From(s, i) == SubSeq(s, i, Len(s))
Upto(s, i) == SubSeq(s, 1, i)

\* lines 72-73: a digest "@sha256:..." is cut off
CutDigest(s) == IF FirstIndex(s, "@") = 0 THEN s ELSE Upto(s, FirstIndex(s, "@") - 1)

\* lines 76-83: the tag is what follows the last colon when that colon is
\* after the last slash (a registry port is no tag), else "latest"
TagOf(s) ==
    IF LastIndex(s, ":") > LastIndex(s, "/") THEN From(s, LastIndex(s, ":") + 1)
    ELSE TagLatest

NameOf(s) ==
    IF LastIndex(s, ":") > LastIndex(s, "/") THEN Upto(s, LastIndex(s, ":") - 1)
    ELSE s

\* lines 90-91: the first part of the name is a registry host
IsHost(first) ==
    \/ FirstIndex(first, ".") # 0
    \/ FirstIndex(first, ":") # 0
    \/ first = <<"l", "o", "c", "a", "l", "h", "o", "s", "t">>

\* lines 86-98: registry and repository of a name
RegistryOf(name) ==
    IF FirstIndex(name, "/") = 0 THEN DockerHub
    ELSE IF IsHost(Upto(name, FirstIndex(name, "/") - 1))
         THEN Upto(name, FirstIndex(name, "/") - 1)
    ELSE DockerHub

RepoOf(name) ==
    IF FirstIndex(name, "/") = 0 THEN <<"l", "i", "b", "r", "a", "r", "y", "/">> \o name
    ELSE IF IsHost(Upto(name, FirstIndex(name, "/") - 1))
         THEN From(name, FirstIndex(name, "/") + 1)
    ELSE name

\* _split_image (lines 68-100): <<registry, repo, tag>> of an image string
\* that has no surrounding blanks or quotes
split_image(s) ==
    <<RegistryOf(NameOf(CutDigest(s))), RepoOf(NameOf(CutDigest(s))), TagOf(CutDigest(s))>>

\* normalize_image (lines 103-111)
normalize_image(raw) ==
    [raw |-> raw, registry |-> split_image(raw)[1], repo |-> split_image(raw)[2],
     tag |-> split_image(raw)[3]]

\* the image strings of the compose files: one on another registry, and two
\* Docker Hub repositories, referenced with a version tag, with a floating
\* tag, and without tag
RawPool ==
    { <<"g", "h", "c", "r", ".", "i", "o", "/", "u", "s", "e", "r", "/", "a", "p", "p", ":", "1", ".", "1">>,
      <<"n", "g", "i", "n", "x">>,
      <<"n", "g", "i", "n", "x", ":", "1", ".", "1">>,
      <<"n", "g", "i", "n", "x", ":", "s", "t", "a", "b", "l", "e">>,
      <<"u", "s", "e", "r", "/", "a", "p", "p", ":", "l", "a", "t", "e", "s", "t">>,
      <<"u", "s", "e", "r", "/", "a", "p", "p", ":", "1", ".", "1">> }

\* the image references of a run
RefPool == {normalize_image(raw) : raw \in RawPool}

\* the characters of the image strings, in code point order
CharOrder == <<".", "/", "0", "1", "2", "3", "4", "5", "6", "7", "8", "9", ":", "a", "b", "c", "d", "e", "f", "g", "h", "i", "j", "k", "l", "m", "n", "o", "p", "q", "r", "s", "t", "u", "v", "w", "x", "y", "z">>

\* s < t of two Python strings
RECURSIVE StrLess(_, _)
StrLess(s, t) ==
    IF t = << >> THEN FALSE
    ELSE IF s = << >> THEN TRUE
    ELSE IF s[1] # t[1] THEN FirstIndex(CharOrder, s[1]) < FirstIndex(CharOrder, t[1])
    ELSE StrLess(Tail(s), Tail(t))

\* sorted(usage.keys()) (line 311): the image strings found, each once, in
\* ascending order
SortedRaws(found) ==
    CHOOSE r \in [1..Cardinality(found) -> found] :
        \A i, j \in 1..Cardinality(found) : i < j => StrLess(r[i], r[j])

\* line 311: refs = [normalize_image(raw) for raw in sorted(usage.keys())]
RefsOf(found) ==
    [k \in 1..Cardinality(found) |-> normalize_image(SortedRaws(found)[k])]

\* the tag lists a successful dockerhub_list_tags call may return
HubListings == { <<Tag11, Tag12, TagLatest>>, <<Tag11>> }

\* the exceptions a dockerhub_list_tags call may raise: urllib's HTTPError,
\* or any other Exception (URLError, a timeout, a JSON error)
ListFailures == {"HTTPError", "Exception"}

NoteUnsupported == "non-Docker Hub registry; tag listing not implemented"
NoteHubHTTP == "Docker Hub HTTP"
NoteHubError == "Docker Hub error"

\* one printed row of the table (lines 362-366)
Row(ref, status, new_tag, note) ==
    [ref |-> ref, status |-> status, new_tag |-> new_tag, note |-> note]

\* HubStatus without the test of the floating tags
HubStatus_NoFloating(tag, new_tag) ==
    IF new_tag # None /\ new_tag[1] # << >> THEN "UPGRADE" ELSE "CURRENT"

\* lines 339-347: the status of a Docker Hub image; "elif new_tag" is
\* Python truth: a tag that is not the empty string
HubStatus(tag, new_tag) ==
    IF tag \in FloatingTags THEN "FLOATING"
    ELSE IF new_tag # None /\ new_tag[1] # << >> THEN "UPGRADE"
    ELSE "CURRENT"

\* the row made of the answer <<new_tag, note>> of choose_newer_tag
HubRowOf(ref, answer) ==
    Row(ref, HubStatus(ref.tag, answer[1]), answer[1], answer[2])

\* lines 337-347: the row of a Docker Hub image whose tag list is known
HubRow(ref, tags) == HubRowOf(ref, choose_newer_tag(ref.tag, tags))

\* the repositories of the run
Repos == {ref.repo : ref \in RefPool}

\* hub_cache = {} (line 320): no repository has a tag list
EmptyCache == [r \in Repos |-> None]

\* InCache that never finds the repository
InCache_Never(cache, repo) == FALSE

\* ref.repo in hub_cache (line 333)
InCache(cache, repo) == cache[repo] # None

\* hub_cache[ref.repo] = [...] (line 335)
CachePut(cache, repo, tags) == [cache EXCEPT ![repo] = Some(tags)]

\* an entry of the log of dockerhub_list_tags calls: the index of the
\* reference it was made for, the repository, and whether it returned
ListCall(i, repo, ok) == [i |-> i, repo |-> repo, ok |-> ok]

InitMain ==
    /\ files_found \in BOOLEAN
    /\ refs \in IF files_found
                THEN {RefsOf(found) : found \in {f \in SUBSET RawPool : Cardinality(f) <= MaxRefs}}
                ELSE {<< >>}
    /\ ref_i = 1
    /\ hub_cache = EmptyCache
    /\ rows = << >>
    /\ list_log = << >>
    /\ exit_code = None
    /\ TagIdle /\ FilterIdle /\ SyncIdle

InLoop == files_found /\ exit_code = None /\ ref_i <= Len(refs)

\* lines 301-303: no compose file found
MainNoFiles ==
    /\ ~files_found /\ exit_code = None
    /\ exit_code' = Some(2)
    /\ UNCHANGED <<files_found, refs, ref_i, hub_cache, rows, list_log, tagVars, filterVars, syncVars>>

\* lines 357-360: an image of another registry
ProcessUnsupported ==
    /\ InLoop
    /\ refs[ref_i].registry # DockerHub
    /\ rows' = Append(rows, Row(refs[ref_i], "UNSUPPORTED", None, NoteUnsupported))
    /\ ref_i' = ref_i + 1
    /\ UNCHANGED <<files_found, refs, hub_cache, list_log, exit_code, tagVars, filterVars, syncVars>>

\* lines 333, 337-347: a Docker Hub image whose repository is in the cache
ProcessCached ==
    /\ InLoop
    /\ refs[ref_i].registry = DockerHub
    /\ InCache(hub_cache, refs[ref_i].repo)
    /\ rows' = Append(rows, HubRow(refs[ref_i], hub_cache[refs[ref_i].repo][1]))
    /\ ref_i' = ref_i + 1
    /\ UNCHANGED <<files_found, refs, hub_cache, list_log, exit_code, tagVars, filterVars, syncVars>>

\* lines 333-347: the repository is not in the cache and the listing returns
ProcessListed(tags) ==
    /\ InLoop
    /\ refs[ref_i].registry = DockerHub
    /\ ~InCache(hub_cache, refs[ref_i].repo)
    /\ list_log' = Append(list_log, ListCall(ref_i, refs[ref_i].repo, TRUE))
    /\ hub_cache' = CachePut(hub_cache, refs[ref_i].repo, tags)
    /\ rows' = Append(rows, HubRow(refs[ref_i], hub_cache'[refs[ref_i].repo][1]))
    /\ ref_i' = ref_i + 1
    /\ UNCHANGED <<files_found, refs, exit_code, tagVars, filterVars, syncVars>>

\* ProcessListFailed with the exception leaving main uncaught
ProcessListFailed_Abort(kind) ==
    /\ InLoop
    /\ refs[ref_i].registry = DockerHub
    /\ ~InCache(hub_cache, refs[ref_i].repo)
    /\ list_log' = Append(list_log, ListCall(ref_i, refs[ref_i].repo, FALSE))
    /\ exit_code' = Some(1)
    /\ UNCHANGED <<files_found, refs, ref_i, hub_cache, rows, tagVars, filterVars, syncVars>>

\* lines 333-334, 349-356: the repository is not in the cache and the
\* listing raises; new_tag keeps the None of line 325
ProcessListFailed(kind) ==
    /\ InLoop
    /\ refs[ref_i].registry = DockerHub
    /\ ~InCache(hub_cache, refs[ref_i].repo)
    /\ list_log' = Append(list_log, ListCall(ref_i, refs[ref_i].repo, FALSE))
    /\ rows' = Append(rows, Row(refs[ref_i], "ERROR", None,
                                IF kind = "HTTPError" THEN NoteHubHTTP ELSE NoteHubError))
    /\ ref_i' = ref_i + 1
    /\ UNCHANGED <<files_found, refs, hub_cache, exit_code, tagVars, filterVars, syncVars>>

\* line 368: the loop is over
MainReturn ==
    /\ files_found /\ exit_code = None /\ ref_i > Len(refs)
    /\ exit_code' = Some(0)
    /\ UNCHANGED <<files_found, refs, ref_i, hub_cache, rows, list_log, tagVars, filterVars, syncVars>>

NextMain ==
    \/ MainNoFiles
    \/ ProcessUnsupported
    \/ ProcessCached
    \/ \E tags \in HubListings : ProcessListed(tags)
    \/ \E kind \in ListFailures : ProcessListFailed(kind)
    \/ MainReturn

SpecMain == InitMain /\ [][NextMain]_vars

-----------------------------------------------------------------------------
(* docker_volume_sync.py: the whitelist filter. *)

\* fnmatch.fnmatch on a POSIX host (normcase is the identity): the whole
\* name must match; "*" matches any run of characters, "/" included, "?"
\* any one character, any other character itself.  Patterns with "[" are
\* outside the pattern alphabet of this model.
RECURSIVE fnmatch(_, _)
fnmatch(name, pat) ==
    IF pat = << >> THEN name = << >>
    ELSE IF pat[1] = "*"
         THEN \E k \in 0..Len(name) : fnmatch(SubSeq(name, k + 1, Len(name)), Tail(pat))
    ELSE IF name = << >> THEN FALSE
    ELSE IF pat[1] = "?" THEN fnmatch(Tail(name), Tail(pat))
    ELSE pat[1] = name[1] /\ fnmatch(Tail(name), Tail(pat))

\* DockerVolumeSync.matches_pattern
matches_pattern(file_path, pattern) == fnmatch(file_path, pattern)

\* should_include_file with the include patterns tried before the exclude ones
should_include_file_IncludeFirst(relative_str, service, whitelist) ==
    LET patterns == DictGet(whitelist, service, EmptyDict)
        include_patterns == DictGet(patterns, "include", << >>)
        exclude_patterns == DictGet(patterns, "exclude", << >>)
    IN  IF \E k \in 1..Len(include_patterns) :
              matches_pattern(relative_str, include_patterns[k])
        THEN TRUE
        ELSE FALSE

\* should_include_file with True for the final "return False" of line 215
should_include_file_FailOpen(relative_str, service, whitelist) ==
    LET patterns == DictGet(whitelist, service, EmptyDict)
        include_patterns == DictGet(patterns, "include", << >>)
        exclude_patterns == DictGet(patterns, "exclude", << >>)
    IN  IF \E k \in 1..Len(exclude_patterns) :
              matches_pattern(relative_str, exclude_patterns[k])
        THEN FALSE
        ELSE TRUE

\* DockerVolumeSync.should_include_file, on the path relative to the volume
\* root: the exclude loop returns False at its first match, then the include
\* loop returns True at its first match, then False
should_include_file(relative_str, service, whitelist) ==
    LET patterns == DictGet(whitelist, service, EmptyDict)
        include_patterns == DictGet(patterns, "include", << >>)
        exclude_patterns == DictGet(patterns, "exclude", << >>)
    IN  IF \E k \in 1..Len(exclude_patterns) :
              matches_pattern(relative_str, exclude_patterns[k])
        THEN FALSE
        ELSE IF \E k \in 1..Len(include_patterns) :
                   matches_pattern(relative_str, include_patterns[k])
        THEN TRUE
        ELSE FALSE

\* the glob patterns and the relative paths the filter is tried on
FilterPatterns == { <<"*">>, <<"a">>, <<"a", "/", "*">>, <<"?">> }

FilterPaths == { <<"a">>, <<"b">>, <<"a", "/", "b">> }

FilterService == "home-assistant"
OtherService == "node-red"

\* a service's table of the whitelist file: each of the keys include and
\* exclude present (Some(list)) or absent (None)
ServiceEntry(inc, exc) ==
    [k \in (IF inc = None THEN {} ELSE {"include"})
             \cup (IF exc = None THEN {} ELSE {"exclude"})
       |-> IF k = "include" THEN inc[1] ELSE exc[1]]

OptionalPatternLists ==
    {None} \cup {Some(l) : l \in SeqsUpTo(FilterPatterns, MaxPatterns)}

\* should_include_file on every whitelist with at most one service table,
\* for a service with and one without a table
InitFilter ==
    /\ f_whitelist \in
          {EmptyDict} \cup
          { [sv \in {FilterService} |-> ServiceEntry(inc, exc)] :
                inc \in OptionalPatternLists, exc \in OptionalPatternLists }
    /\ f_service \in {FilterService, OtherService}
    /\ f_path \in FilterPaths
    /\ f_result = None
    /\ TagIdle /\ MainIdle /\ SyncIdle

CallShouldIncludeFile ==
    /\ f_result = None
    /\ f_result' = Some(should_include_file(f_path, f_service, f_whitelist))
    /\ UNCHANGED <<f_whitelist, f_service, f_path, tagVars, mainVars, syncVars>>

NextFilter == CallShouldIncludeFile

SpecFilter == InitFilter /\ [][NextFilter]_vars

-----------------------------------------------------------------------------
(* docker_volume_sync.py: the volumes, the file trees and the git commands. *)

\* VOLUME_MAPPINGS (lines 27-31), in the dict's order
VolumeOrder == <<"home_assistant_config", "node_red_data", "zwave_data">>

Volumes == {VolumeOrder[k] : k \in 1..Len(VolumeOrder)}

VOLUME_MAPPINGS(volume) ==
    CASE volume = "home_assistant_config" -> "home-assistant"
      [] volume = "node_red_data" -> "node-red"
      [] volume = "zwave_data" -> "zwave-js-ui"

\* relative paths: a file "a", or a directory "a" holding a file "b"
PathA == <<"a">>
PathAB == <<"a", "/", "b">>

SrcPaths == {PathA, PathAB}

\* what files_identical reads of a file: st_mtime and st_size
Stats == { [mtime |-> 1, size |-> 1], [mtime |-> 2, size |-> 2] }

\* the directories a path lies in, relative to the root
Ancestors(path) == {SubSeq(path, 1, i - 1) : i \in {j \in 1..Len(path) : path[j] = "/"}}

\* Path.name
Basename(path) == SubSeq(path, LastIndex(path, "/") + 1, Len(path))

\* the file trees a volume can hold: no file lies under a path that is a file
SrcTrees ==
    UNION { {tree \in [files -> Stats] :
                \A f1, f2 \in files : f1 \notin Ancestors(f2)} : files \in SUBSET SrcPaths }

\* a target directory of the config tree: whether it exists, the directories
\* under it, and its files with what stat() reads of each
NoTarget == [root |-> FALSE, dirs |-> {}, files |-> EmptyDict]

IsFile(t, path) == path \in DOMAIN t.files
IsDir(t, path) == path \in t.dirs

\* the whitelist files a run can load (load_whitelist_config): a table per
\* service that includes everything, and one that also excludes what lies
\* under "a"
IncludeAll == [include |-> << <<"*">> >>, exclude |-> << >>]
ExcludeUnderA == [include |-> << <<"*">> >>, exclude |-> << <<"a", "/", "*">> >>]

WhitelistConfigs ==
    { [sv \in {VOLUME_MAPPINGS(v) : v \in Volumes} |-> IncludeAll],
      [sv \in {VOLUME_MAPPINGS(v) : v \in Volumes} |-> ExcludeUnderA] }

\* get_docker_volume_path and volume_root.exists(): the mount point is
\* found, docker volume inspect fails (None), or the mount point is missing
ResolveOutcomes == {"ok", "inspect_failed", "missing"}

\* the source files of a volume that pass the whitelist of its service
Included(tree, service, whitelist) ==
    {path \in DOMAIN tree : should_include_file(path, service, whitelist)}

\* the orders in which rglob may yield the files of a set
WalkOrders(files) ==
    {o \in [1..Cardinality(files) -> files] :
        \A i, j \in 1..Cardinality(files) : o[i] = o[j] => i = j}

\* files_identical (lines 274-279): equal st_mtime and equal st_size
files_identical(stat1, stat2) ==
    stat1.mtime = stat2.mtime /\ stat1.size = stat2.size

\* line 259: "not target_path.exists() or not files_identical(...)"; what
\* stat() reads of a directory is not modelled, so whether it equals the
\* source file's is the choice dir_identical
NeedsCopy(t, path, stat, dir_identical) ==
    IF IsFile(t, path) THEN ~files_identical(stat, t.files[path])
    ELSE IF IsDir(t, path) THEN ~dir_identical
    ELSE TRUE

\* shutil.copy2(src, dst): onto a directory, the file goes into it under the
\* source's name
CopyDest(t, path) ==
    IF IsDir(t, path) THEN path \o <<"/">> \o Basename(path) ELSE path

\* the tree after shutil.copy2 wrote a file: its content, and the source's
\* modification time with it
WriteFile(t, dest, stat) ==
    [t EXCEPT !.files = [q \in DOMAIN t.files \cup {dest} |->
                            IF q = dest THEN stat ELSE t.files[q]]]

\* Path.mkdir(parents=True, exist_ok=True) of the parent of a target path
MkdirParents(t, path) ==
    [t EXCEPT !.root = TRUE, !.dirs = t.dirs \cup Ancestors(path)]

\* it raises FileExistsError or NotADirectoryError when a file is in the way
CanMkdirParents(t, path) == \A d \in Ancestors(path) : ~IsFile(t, d)

\* the state of the walk of sync_volume_to_config: the target tree, the
\* files copied, and whether an exception left the method
WalkState(t, copied, crashed) == [t |-> t, copied |-> copied, crashed |-> crashed]

\* lines 259-263 for one file, its parent directories made
CopyIfDifferent(w, path, stat, dir_identical) ==
    IF ~NeedsCopy(w.t, path, stat, dir_identical) THEN w
    ELSE IF IsDir(w.t, CopyDest(w.t, path)) THEN WalkState(w.t, w.copied, TRUE)
    ELSE WalkState(WriteFile(w.t, CopyDest(w.t, path), stat), w.copied \cup {path}, FALSE)

\* lines 250-263 for one included file, not in dry-run mode
SyncFile(w, path, stat, dir_identical) ==
    IF w.crashed THEN w
    ELSE IF ~CanMkdirParents(w.t, path) THEN WalkState(w.t, w.copied, TRUE)
    ELSE CopyIfDifferent(WalkState(MkdirParents(w.t, path), w.copied, FALSE),
                         path, stat, dir_identical)

\* lines 247-269: the loop over the included files, in the order of the walk
RECURSIVE SyncWalk(_, _, _, _)
SyncWalk(w, order, tree, dir_identical) ==
    IF order = << >> THEN w
    ELSE SyncWalk(SyncFile(w, order[1], tree[order[1]], dir_identical),
                  Tail(order), tree, dir_identical)

\* what a method did: its outcome, the target tree it leaves, and the
\* number of files it copied or removed (would copy or remove, in dry-run)
Done(ret, t, n) == [ret |-> ret, t |-> t, n |-> n]

SyncDone(w) ==
    Done(IF w.crashed THEN "crash" ELSE "ok", w.t, Cardinality(w.copied))

-----------------------------------------------------------------------------
(* docker_volume_sync.py: the methods of DockerVolumeSync. *)

\* sync_volume_to_config that copies in dry-run mode too
sync_volume_to_config_NoDryRun(dry, tree, t, outcome, order, dir_identical) ==
    IF outcome # "ok" THEN Done("fail", t, 0)
    ELSE SyncDone(SyncWalk(WalkState([t EXCEPT !.root = TRUE], {}, FALSE),
                           order, tree, dir_identical))

\* sync_volume_to_config (lines 222-272) of a volume holding tree onto the
\* target t; order is the walk over the included files.  False when the
\* volume path is not found; in dry-run mode nothing is made or copied and
\* every included file is logged "Would copy"; else the target directory is
\* made and the files are walked.
sync_volume_to_config(dry, tree, t, outcome, order, dir_identical) ==
    IF outcome # "ok" THEN Done("fail", t, 0)
    ELSE IF dry THEN Done("ok", t, Len(order))
    ELSE SyncDone(SyncWalk(WalkState([t EXCEPT !.root = TRUE], {}, FALSE),
                           order, tree, dir_identical))

\* file_path.unlink() of every orphan; directories stay
RemoveFiles(t, orphans) ==
    [t EXCEPT !.files = [q \in DOMAIN t.files \ orphans |-> t.files[q]]]

\* lines 311-327: the target files that are not in should_exist are
\* removed, or only counted in dry-run mode
RemoveOrphans(dry, t, should_exist) ==
    Done("ok",
         IF dry THEN t ELSE RemoveFiles(t, DOMAIN t.files \ should_exist),
         Cardinality(DOMAIN t.files \ should_exist))

\* clean_orphaned_files (lines 281-327); included is the set of the volume's
\* files that pass the whitelist.  It returns at once when the volume path is
\* not resolved or the target directory does not exist; rglob of a mount
\* point that is missing yields no file.
clean_orphaned_files(dry, included, t, outcome) ==
    IF outcome = "inspect_failed" \/ ~t.root THEN Done("skipped", t, 0)
    ELSE RemoveOrphans(dry, t, IF outcome = "missing" THEN {} ELSE included)

\* how a git_add_and_commit that is not a dry run can end
CommitOutcomes == {"add_failed", "status_failed", "no_changes", "commit_failed", "committed"}

\* the git commands that change the repository it has issued by then: git
\* add (line 357) and, after the git status of line 360 showed changes, git
\* commit (line 370)
IssuedBy(outcome) ==
    IF outcome \in {"add_failed", "status_failed", "no_changes"} THEN {"add"}
    ELSE {"add", "commit"}

\* git_add_and_commit (lines 347-376): its return value and the git
\* commands issued
git_add_and_commit(dry, outcome) ==
    IF dry THEN [ret |-> TRUE, issued |-> {}]
    ELSE [ret |-> outcome \in {"no_changes", "committed"}, issued |-> IssuedBy(outcome)]

\* how git_status (lines 329-345) can end; it returns True on "changes"
StatusOutcomes == {"changes", "clean", "failed"}

\* how far one volume has come through consecutive real runs with its
\* source and the whitelist unchanged: step 1 synced, 2 synced and cleaned,
\* 3 then synced again, 4 then cleaned again; work is the number of files
\* the second run has copied and removed
NoPhase == [vol |-> "", step |-> 0, work |-> 0]

Phase(v, step, work) ==
    IF step = 0 THEN NoPhase ELSE [vol |-> v, step |-> step, work |-> work]

StepOf(v) == IF phase.vol = v THEN phase.step ELSE 0

WorkOf(v) == IF phase.vol = v THEN phase.work ELSE 0

StepAfterSync(dry, step, r) ==
    IF dry \/ r.ret # "ok" THEN 0
    ELSE IF step \in {2, 4} THEN 3 ELSE 1

WorkAfterSync(dry, step, r) ==
    IF StepAfterSync(dry, step, r) = 3 THEN r.n ELSE 0

StepAfterClean(dry, step, c, outcome) ==
    IF dry \/ outcome = "missing" THEN 0
    ELSE IF c.ret = "skipped" THEN step
    ELSE IF step = 1 THEN 2
    ELSE IF step = 3 THEN 4 ELSE 0

WorkAfterClean(dry, step, work, c, outcome) ==
    IF StepAfterClean(dry, step, c, outcome) = 4 THEN work + c.n
    ELSE IF StepAfterClean(dry, step, c, outcome) = 3 THEN work ELSE 0

Idle == sync_pc = None

InitSync ==
    /\ dry_run \in BOOLEAN
    /\ whitelist_patterns \in WhitelistConfigs
    /\ src = [v \in Volumes |-> EmptyDict]
    /\ tgt = [v \in Volumes |-> NoTarget]
    /\ git_issued = {}
    /\ sync_pc = None
    /\ phase = NoPhase
    /\ src_changes = 0
    /\ TagIdle /\ FilterIdle /\ MainIdle

\* the included files of volume v now
IncludedNow(v) == Included(src[v], VOLUME_MAPPINGS(v), whitelist_patterns)

\* a new run of the tool: DockerVolumeSync(dry_run, ..., whitelist_file)
\* (lines 34-39, 426) loads the whitelist file as it is then
NewRun(dry, whitelist) ==
    /\ Idle
    /\ dry_run' = dry
    /\ whitelist_patterns' = whitelist
    /\ git_issued' = {}
    /\ phase' = IF whitelist = whitelist_patterns THEN phase ELSE NoPhase
    /\ UNCHANGED <<src, tgt, sync_pc, src_changes, tagVars, filterVars, mainVars>>

\* the containers rewrite the files of a volume, between two calls
SrcChange(v, tree) ==
    /\ Idle
    /\ src_changes < MaxSrcChanges
    /\ tree # src[v]
    /\ src' = [src EXCEPT ![v] = tree]
    /\ src_changes' = src_changes + 1
    /\ phase' = IF phase.vol = v THEN NoPhase ELSE phase
    /\ UNCHANGED <<dry_run, whitelist_patterns, tgt, git_issued, sync_pc,
                   tagVars, filterVars, mainVars>>

\* the state after sync_volume_to_config(v, ...) ended as r
SyncApplied(v, r) ==
    /\ tgt' = [tgt EXCEPT ![v] = r.t]
    /\ phase' = Phase(v, StepAfterSync(dry_run, StepOf(v), r),
                       WorkAfterSync(dry_run, StepOf(v), r))

\* a call of sync_volume_to_config for volume v
CallSync(v) ==
    /\ Idle
    /\ \E outcome \in ResolveOutcomes, order \in WalkOrders(IncludedNow(v)),
          dir_identical \in BOOLEAN :
          SyncApplied(v, sync_volume_to_config(dry_run, src[v], tgt[v], outcome,
                                               order, dir_identical))
    /\ UNCHANGED <<dry_run, whitelist_patterns, src, git_issued, sync_pc, src_changes,
                   tagVars, filterVars, mainVars>>

\* the state after clean_orphaned_files ended as c for volume v, which had
\* come to step, with work done, before it
CleanApplied(v, step, work, c, outcome) ==
    /\ tgt' = [tgt EXCEPT ![v] = c.t]
    /\ phase' = Phase(v, StepAfterClean(dry_run, step, c, outcome),
                       WorkAfterClean(dry_run, step, work, c, outcome))

\* a call of clean_orphaned_files for the target directory of volume v
CallClean(v) ==
    /\ Idle
    /\ \E outcome \in ResolveOutcomes :
          CleanApplied(v, StepOf(v), WorkOf(v),
                       clean_orphaned_files(dry_run, IncludedNow(v), tgt[v], outcome),
                       outcome)
    /\ UNCHANGED <<dry_run, whitelist_patterns, src, git_issued, sync_pc, src_changes,
                   tagVars, filterVars, mainVars>>

\* a call of git_add_and_commit
CallGitAddAndCommit ==
    /\ Idle
    /\ \E outcome \in CommitOutcomes :
          git_issued' = git_issued \cup git_add_and_commit(dry_run, outcome).issued
    /\ UNCHANGED <<dry_run, whitelist_patterns, src, tgt, sync_pc, phase,
                   src_changes, tagVars, filterVars, mainVars>>

\* where sync_all_volumes is: the loop is before volume i with success_count
\* volumes counted; synced are the volumes whose sync_volume_to_config
\* returned True and unresolved those whose path was not found
LoopAt(i, success_count, synced, unresolved) ==
    Some([i |-> i, success_count |-> success_count,
          synced |-> synced, unresolved |-> unresolved])

\* sync_all_volumes (lines 378-395) is entered: success_count = 0 and the
\* loop is before the first volume
SyncAllStart ==
    /\ Idle
    /\ sync_pc' = LoopAt(1, 0, {}, {})
    /\ UNCHANGED <<dry_run, whitelist_patterns, src, tgt, git_issued, phase,
                   src_changes, tagVars, filterVars, mainVars>>

\* the loop goes on to the next volume after volume v, whose path resolved
\* as outcome, success_count raised by ok
LoopOn(v, outcome, ok) ==
    LoopAt(sync_pc[1].i + 1, sync_pc[1].success_count + ok,
           sync_pc[1].synced \cup (IF ok = 1 THEN {v} ELSE {}),
           sync_pc[1].unresolved \cup (IF outcome # "ok" THEN {v} ELSE {}))

\* VolumeSynced that runs the orphan cleanup whatever the sync returned
VolumeSynced_CleanAlways(v, outcome, r, clean_outcome) ==
    IF r.ret = "crash" THEN SyncApplied(v, r) /\ sync_pc' = None
    ELSE IF dry_run THEN SyncApplied(v, r)
                         /\ sync_pc' = LoopOn(v, outcome, IF r.ret = "ok" THEN 1 ELSE 0)
    ELSE /\ CleanApplied(v, StepAfterSync(dry_run, StepOf(v), r),
                         WorkAfterSync(dry_run, StepOf(v), r),
                         clean_orphaned_files(dry_run, IncludedNow(v), r.t, clean_outcome),
                         clean_outcome)
         /\ sync_pc' = LoopOn(v, outcome, IF r.ret = "ok" THEN 1 ELSE 0)

\* lines 383-387 for volume v whose sync ended as r: an exception leaves
\* sync_all_volumes; a failed volume is passed over; a synced one is counted
\* and, when this is no dry run, cleaned
VolumeSynced(v, outcome, r, clean_outcome) ==
    IF r.ret = "crash" THEN SyncApplied(v, r) /\ sync_pc' = None
    ELSE IF r.ret = "fail" THEN SyncApplied(v, r) /\ sync_pc' = LoopOn(v, outcome, 0)
    ELSE IF dry_run THEN SyncApplied(v, r) /\ sync_pc' = LoopOn(v, outcome, 1)
    ELSE /\ CleanApplied(v, StepAfterSync(dry_run, StepOf(v), r),
                         WorkAfterSync(dry_run, StepOf(v), r),
                         clean_orphaned_files(dry_run, IncludedNow(v), r.t, clean_outcome),
                         clean_outcome)
         /\ sync_pc' = LoopOn(v, outcome, 1)

\* one turn of the loop of sync_all_volumes
SyncAllVolume ==
    /\ ~Idle
    /\ sync_pc[1].i <= Len(VolumeOrder)
    /\ \E outcome \in ResolveOutcomes,
          order \in WalkOrders(IncludedNow(VolumeOrder[sync_pc[1].i])),
          dir_identical \in BOOLEAN, clean_outcome \in ResolveOutcomes :
          VolumeSynced(VolumeOrder[sync_pc[1].i], outcome,
                       sync_volume_to_config(dry_run, src[VolumeOrder[sync_pc[1].i]],
                                             tgt[VolumeOrder[sync_pc[1].i]], outcome,
                                             order, dir_identical),
                       clean_outcome)
    /\ UNCHANGED <<dry_run, whitelist_patterns, src, git_issued, src_changes,
                   tagVars, filterVars, mainVars>>

\* line 395: the value sync_all_volumes returns when its loop ended at pc
sync_all_volumes_returns(pc) == pc.success_count = Len(VolumeOrder)

\* lines 389-395: after the loop, git_status, then git_add_and_commit when
\* there are changes and auto_commit is set
SyncAllFinish ==
    /\ ~Idle
    /\ sync_pc[1].i > Len(VolumeOrder)
    /\ \E status \in StatusOutcomes, auto_commit \in BOOLEAN, outcome \in CommitOutcomes :
          git_issued' = git_issued \cup
                            (IF status = "changes" /\ auto_commit
                             THEN git_add_and_commit(dry_run, outcome).issued ELSE {})
    /\ sync_pc' = None
    /\ UNCHANGED <<dry_run, whitelist_patterns, src, tgt, phase, src_changes,
                   tagVars, filterVars, mainVars>>

NextSync ==
    \/ \E dry \in BOOLEAN, whitelist \in WhitelistConfigs : NewRun(dry, whitelist)
    \/ \E v \in Volumes, tree \in SrcTrees : SrcChange(v, tree)
    \/ \E v \in Volumes : CallSync(v)
    \/ \E v \in Volumes : CallClean(v)
    \/ CallGitAddAndCommit
    \/ SyncAllStart
    \/ SyncAllVolume
    \/ SyncAllFinish

SpecSync == InitSync /\ [][NextSync]_vars

-----------------------------------------------------------------------------
(* Properties of the version heuristic, under SpecTag. *)

\* the suffix of a tag by its first hyphen alone: None when it has no hyphen
HyphenSuffix(tag) ==
    IF \E i \in 1..Len(tag) : tag[i] = "-"
    THEN Some(SubSeq(tag, FirstIndex(tag, "-") + 1, Len(tag)))
    ELSE None

\* the part of a tag before its first hyphen
HyphenBase(tag) ==
    IF \E i \in 1..Len(tag) : tag[i] = "-"
    THEN SubSeq(tag, 1, FirstIndex(tag, "-") - 1)
    ELSE tag

\* the ranking key of a semver-like tag
TagKey(tag) == semver_sort_key(parse_semverish(HyphenBase(tag))[1])

IsSemverTag(tag) == parse_semverish(HyphenBase(tag)) # None

KeyGreater(a, b) ==
    \/ a[1] > b[1]
    \/ a[1] = b[1] /\ a[2] > b[2]
    \/ a[1] = b[1] /\ a[2] = b[2] /\ a[3] > b[3]

Called == tag_result # None
Suggested == Called /\ tag_result[1] # None
SuggestedTag == tag_result[1][1]

\* C1: whenever choose_newer_tag suggests a tag, the suffix after the first
\* hyphen of the suggested tag equals that of the old tag (both absent
\* counts as equal): a suggestion never crosses a suffix boundary.
C1_SuffixKept ==
    Suggested => HyphenSuffix(SuggestedTag) = HyphenSuffix(old_tag)

\* C1 witness: a suffixed old tag gets a suggestion although the list
\* holds a semver-like tag of another suffix with a greater key than the
\* suggested one.
C1_Witness ==
    /\ Suggested
    /\ HyphenSuffix(old_tag) # None
    /\ \E i \in 1..Len(all_tags) :
          /\ IsSemverTag(all_tags[i])
          /\ HyphenSuffix(all_tags[i]) # HyphenSuffix(old_tag)
          /\ KeyGreater(TagKey(all_tags[i]), TagKey(SuggestedTag))

\* the pool choose_newer_tag selects from, for a semver-like old tag
PoolOf(old_v, candidates) ==
    IF Preferred(old_v, candidates) # << >>
    THEN Preferred(old_v, candidates) ELSE Fallback(old_v, candidates)

SelectionPool ==
    PoolOf(parse_semverish(split_suffix(old_tag)[1])[1],
           Candidates(split_suffix(old_tag)[2], all_tags))

\* C2: whenever a tag is suggested, its key (major, minor-or-0, patch-or-0)
\* is strictly greater than the old tag's key; and when no candidate of the
\* selection pool has a strictly greater key (so the selected maximum has
\* none), nothing is suggested and the reason is "already current".
C2_StrictlyNewer ==
    /\ Suggested =>
          /\ IsSemverTag(old_tag) /\ IsSemverTag(SuggestedTag)
          /\ KeyGreater(TagKey(SuggestedTag), TagKey(old_tag))
    /\ (/\ Called
        /\ old_tag \notin FloatingTags
        /\ IsSemverTag(old_tag)
        /\ SelectionPool # << >>
        /\ \A k \in 1..Len(SelectionPool) :
              ~KeyGreater(semver_sort_key(SelectionPool[k][2]), TagKey(old_tag)))
       => tag_result = <<None, NoteCurrent>>

\* C2 witness: the call ended "already current" on a list that holds a
\* tag other than the old one with exactly the old tag's key.
C2_Witness ==
    /\ tag_result = <<None, NoteCurrent>>
    /\ \E i \in 1..Len(all_tags) :
          /\ all_tags[i] # old_tag
          /\ IsSemverTag(all_tags[i])
          /\ HyphenSuffix(all_tags[i]) = HyphenSuffix(old_tag)
          /\ TagKey(all_tags[i]) = TagKey(old_tag)

\* the major and the minor (-1 when absent) of a semver-like tag
MajorOf(tag) == parse_semverish(HyphenBase(tag))[1][1]

MinorOf(tag) == parse_semverish(HyphenBase(tag))[1][2]

\* the parse of every tag of all_tags, None for a tag that is not
\* semver-like
ParsedTags == [i \in 1..Len(all_tags) |-> parse_semverish(HyphenBase(all_tags[i]))]

\* the positions in all_tags of the semver-like tags with the old tag's
\* suffix and major, parsed being ParsedTags
SameMajorOf(parsed) ==
    {i \in DOMAIN parsed :
        /\ parsed[i] # None
        /\ HyphenSuffix(all_tags[i]) = HyphenSuffix(old_tag)
        /\ parsed[i][1][1] = MajorOf(old_tag)}

SameMajor == SameMajorOf(ParsedTags)

\* of the positions S, the ones with the old tag's minor, or all of them
\* when the old tag has no minor
SameMinorOf(parsed, S) ==
    {i \in S : MinorOf(old_tag) >= 0 => parsed[i][1][2] = MinorOf(old_tag)}

\* the pool C13 describes: the same-minor candidates, or the other
\* same-major candidates when there is none
DescribedPoolOf(same_major, same_minor) ==
    IF same_minor # {} THEN same_minor ELSE same_major \ same_minor

\* the positions of S whose key no position of S exceeds
MaximaOf(parsed, S) ==
    {i \in S : \A j \in S : ~KeyGreater(semver_sort_key(parsed[j][1]),
                                      semver_sort_key(parsed[i][1]))}

\* the answer C13 describes for a pool and the set of its maxima
DescribedAnswer(parsed, same_minor, pool, maxima) ==
    /\ Suggested =>
          /\ \E i \in maxima : all_tags[i] = SuggestedTag
          /\ MajorOf(SuggestedTag) = MajorOf(old_tag)
          /\ (same_minor # {} /\ MinorOf(old_tag) >= 0) =>
                MinorOf(SuggestedTag) = MinorOf(old_tag)
    /\ Suggested <=>
          \E i \in pool : KeyGreater(semver_sort_key(parsed[i][1]), TagKey(old_tag))
    /\ (~Suggested /\ pool # {}) => tag_result = <<None, NoteCurrent>>
    /\ (pool = {}) => tag_result[2] \in {NoteNoCandidates, NoteNoSameMajor}

DescribedFor(parsed, same_major, same_minor) ==
    DescribedAnswer(parsed, same_minor,
                    DescribedPoolOf(same_major, same_minor),
                    MaximaOf(parsed, DescribedPoolOf(same_major, same_minor)))

\* C13 -- Pool selection of choose_newer_tag: for a semver-like old tag,
\* the candidate selected is a maximum by key of the same-minor candidates
\* (all same-major candidates when the old tag has no minor) whenever there
\* is one, and of the other same-major candidates only when there is none;
\* it is suggested exactly when its key exceeds the old tag's, else the
\* answer is "already current", and "no newer tag in same major" when the
\* pool is empty although candidates exist.  So no tag of another major is
\* suggested, and none of another minor when a same-minor candidate exists.
C13_PoolSelection ==
    (Called /\ old_tag \notin FloatingTags /\ IsSemverTag(old_tag)) =>
        DescribedFor(ParsedTags, SameMajor, SameMinorOf(ParsedTags, SameMajor))

\* C13 witness: a tag with the old tag's minor and a patch was suggested
\* although the list holds a same-major candidate of a higher minor and a
\* candidate of a higher major.
C13_Witness ==
    /\ Suggested
    /\ MinorOf(old_tag) >= 0 /\ MinorOf(SuggestedTag) = MinorOf(old_tag)
    /\ \E i \in SameMajor : MinorOf(all_tags[i]) > MinorOf(old_tag)
    /\ \E i \in 1..Len(all_tags) :
          /\ IsSemverTag(all_tags[i])
          /\ HyphenSuffix(all_tags[i]) = HyphenSuffix(old_tag)
          /\ MajorOf(all_tags[i]) > MajorOf(old_tag)

\* the orders of a list of n elements
Orders(n) == {p \in [1..n -> 1..n] : \A i, j \in 1..n : p[i] = p[j] => i = j}

\* the list tags in the order p
Reordered(tags, p) == [k \in 1..Len(tags) |-> tags[p[k]]]

\* C14 -- choose_newer_tag is a function of the set of available tags: on
\* every list that holds the tags of all_tags in another order it returns
\* the same suggested tag and the same reason as on all_tags.
C14_OrderIndependent ==
    Called => \A p \in Orders(Len(all_tags)) :
                  choose_newer_tag(old_tag, Reordered(all_tags, p)) = tag_result

\* C15 -- The suggestion is a fixpoint of the heuristic: when
\* choose_newer_tag(old_tag, all_tags) suggests tag t, t is one of all_tags
\* and choose_newer_tag(t, all_tags) suggests nothing, with the reason
\* "already at newest matching tag", so that an image with tag t is reported
\* CURRENT against the same list.
C15_SuggestionIsFixpoint ==
    Suggested =>
        /\ \E i \in 1..Len(all_tags) : all_tags[i] = SuggestedTag
        /\ choose_newer_tag(SuggestedTag, all_tags) = <<None, NoteCurrent>>
        /\ HubStatus(SuggestedTag, choose_newer_tag(SuggestedTag, all_tags)[1]) = "CURRENT"

\* C15 witness: a tag was suggested while the list holds a candidate of the
\* same major whose key is greater than the suggested tag's.
C15_Witness ==
    /\ Suggested
    /\ \E i \in SameMajor : KeyGreater(TagKey(all_tags[i]), TagKey(SuggestedTag))

\* C7: for an old tag of latest or stable, whatever the tag list,
\* choose_newer_tag suggests no tag and gives the "not a version tag" reason.
C7_FloatingNoSuggestion ==
    (Called /\ old_tag \in FloatingTags) => tag_result = <<None, NoteFloating>>

\* C7 witness: the call was made for a floating old tag on a list that
\* holds a semver-like tag.
C7_Witness ==
    /\ Called
    /\ old_tag \in FloatingTags
    /\ \E i \in 1..Len(all_tags) : IsSemverTag(all_tags[i])

-----------------------------------------------------------------------------
(* Properties of the whitelist filter, under SpecFilter. *)

\* the pattern lists the whitelist holds for the service asked about
ListedPatterns(key) ==
    IF f_service \in DOMAIN f_whitelist /\ key \in DOMAIN f_whitelist[f_service]
    THEN f_whitelist[f_service][key] ELSE << >>

MatchesSome(patterns) ==
    \E k \in 1..Len(patterns) : fnmatch(f_path, patterns[k])

\* C3: a path that matches at least one exclude pattern of the service is
\* not included, whether or not it also matches an include pattern and
\* whatever the order of the pattern lists.
C3_ExcludePrecedence ==
    (f_result # None /\ MatchesSome(ListedPatterns("exclude")))
        => f_result = Some(FALSE)

\* C3 witness: the filter was asked about a path that matches an exclude
\* pattern and an include pattern, the include list being non-empty and the
\* matching exclude pattern not the first of its list.
C3_Witness ==
    /\ f_result # None
    /\ MatchesSome(ListedPatterns("include"))
    /\ MatchesSome(ListedPatterns("exclude"))
    /\ ~fnmatch(f_path, ListedPatterns("exclude")[1])

\* C4: the filter answers True only for a path that matches an include
\* pattern of the service and none of its exclude patterns; a path that
\* matches no pattern, and every path of a service with no table or with no
\* or an empty include list, is excluded.
C4_FailClosed ==
    f_result # None =>
        (f_result = Some(TRUE) <=>
            /\ MatchesSome(ListedPatterns("include"))
            /\ ~MatchesSome(ListedPatterns("exclude")))

\* C4 witness: the filter was asked about a path that matches no pattern of
\* a service whose table has both lists non-empty.
C4_Witness ==
    /\ f_result = Some(FALSE)
    /\ ListedPatterns("include") # << >>
    /\ ListedPatterns("exclude") # << >>
    /\ ~MatchesSome(ListedPatterns("include"))
    /\ ~MatchesSome(ListedPatterns("exclude"))

-----------------------------------------------------------------------------
(* Properties of the image checker's run, under SpecMain. *)

FailedCalls == {k \in 1..Len(list_log) : ~list_log[k].ok}

\* C6: an image whose tag listing fails is reported with status ERROR, the
\* cause in the note and no new tag; every image processed so far, before
\* and after a failure, has exactly one row, in order; and a run that found
\* compose files ends only with exit code 0 and one row per image.
C6_ErrorIsolation ==
    /\ \A k \in FailedCalls :
          /\ list_log[k].i <= Len(rows)
          /\ rows[list_log[k].i].status = "ERROR"
          /\ rows[list_log[k].i].new_tag = None
          /\ rows[list_log[k].i].note \in {NoteHubHTTP, NoteHubError}
    /\ Len(rows) = (IF files_found THEN ref_i - 1 ELSE 0)
    /\ \A k \in 1..Len(rows) : rows[k].ref = refs[k]
    /\ (files_found /\ exit_code # None) =>
          (exit_code = Some(0) /\ Len(rows) = Len(refs))

\* C6 witness: the run returned 0 after a listing failed for one image and
\* a later image was reported with another status.
C6_Witness ==
    /\ exit_code = Some(0)
    /\ \E k \in FailedCalls : \E j \in (list_log[k].i + 1)..Len(rows) :
          rows[j].status \in {"UPGRADE", "CURRENT", "FLOATING"}

\* C8 as claimed: within one run the tag listing of a repository is
\* requested at most once, whether the listing succeeded or failed.
C8_ListedAtMostOnce ==
    \A k1, k2 \in 1..Len(list_log) :
        list_log[k1].repo = list_log[k2].repo => k1 = k2

\* C8 as amended: once the tag listing of a repository has succeeded it is
\* not requested again in the run, however many references of the
\* repository follow; a failed listing is not cached, so each later
\* reference of that repository requests it again (one request per
\* reference at most).
C8_NotListedAgainAfterSuccess ==
    /\ \A k1, k2 \in 1..Len(list_log) :
          (k1 < k2 /\ list_log[k1].repo = list_log[k2].repo) => ~list_log[k1].ok
    /\ \A k1, k2 \in 1..Len(list_log) :
          list_log[k1].i = list_log[k2].i => k1 = k2

\* C8 witness: two references of one repository with different tags were
\* both reported from one successful listing.
C8_Witness ==
    \E j1, j2 \in 1..Len(rows) :
        /\ j1 < j2
        /\ rows[j1].ref.registry = DockerHub /\ rows[j2].ref.registry = DockerHub
        /\ rows[j1].ref.repo = rows[j2].ref.repo
        /\ rows[j1].ref.tag # rows[j2].ref.tag
        /\ rows[j1].status # "ERROR" /\ rows[j2].status # "ERROR"
        /\ Cardinality({k \in 1..Len(list_log) :
                            list_log[k].repo = rows[j1].ref.repo}) = 1

\* the rows of the Docker Hub images whose tag is 'latest' or 'stable'
FloatingRows ==
    {j \in 1..Len(rows) : rows[j].ref.registry = DockerHub
                           /\ rows[j].ref.tag \in FloatingTags}

\* the tag listing requested for the image of row j failed
ListingFailedFor(j) == \E k \in FailedCalls : list_log[k].i = j

\* the image string has no tag of its own
Untagged(raw) == TagOf(CutDigest(raw)) = TagLatest /\ LastIndex(raw, ":") = 0

\* C11 as claimed: every image on docker.io whose tag is 'latest' or
\* 'stable' (an image string with no tag counts as 'latest') is reported with
\* status FLOATING and no new tag, and no image with another tag is reported
\* FLOATING.
C11_FloatingIffFloatingTag ==
    /\ \A j \in FloatingRows :
          rows[j].status = "FLOATING" /\ rows[j].new_tag = None
    /\ \A j \in 1..Len(rows) : rows[j].status = "FLOATING" => j \in FloatingRows

\* C11 as amended: an image on docker.io whose tag is 'latest' or 'stable'
\* (an image string with no tag counts as 'latest') is reported with no new
\* tag, with status FLOATING when the tag list of its repository was
\* obtained and status ERROR when the listing requested for it failed; no
\* other image is reported FLOATING.
C11_FloatingUnlessListingFailed ==
    /\ \A j \in FloatingRows :
          /\ rows[j].new_tag = None
          /\ rows[j].status = (IF ListingFailedFor(j) THEN "ERROR" ELSE "FLOATING")
    /\ \A j \in 1..Len(rows) : rows[j].status = "FLOATING" => j \in FloatingRows

\* C11 witness: an image string with no tag was reported FLOATING, and an
\* image with a floating tag whose listing failed was reported ERROR.
C11_Witness ==
    /\ \E j \in FloatingRows :
          Untagged(rows[j].ref.raw) /\ rows[j].status = "FLOATING"
    /\ \E j \in FloatingRows :
          ListingFailedFor(j) /\ rows[j].status = "ERROR"
    /\ \E j \in 1..Len(rows) : rows[j].status \in {"UPGRADE", "CURRENT"}

-----------------------------------------------------------------------------
(* Properties of the volume synchronizer, under SpecSync. *)

\* C5 -- Sync idempotence: when a volume was synced and cleaned, not in
\* dry-run mode, and is then synced and cleaned again with its source and
\* the whitelist unchanged, the second run copies no file and removes no
\* orphan.
C5_SecondRunIdle == phase.step \in {3, 4} => phase.work = 0

\* C9 -- Orphan cleanup postcondition: not in dry-run mode, after
\* sync_volume_to_config succeeded for a volume and clean_orphaned_files
\* then ran for its target directory, the volume path resolved and the
\* source unchanged, the relative paths of the files of the target
\* directory are exactly the source files that should_include_file accepts.
C9_TargetIsIncluded ==
    phase.step \in {2, 4} => DOMAIN tgt[phase.vol].files = IncludedNow(phase.vol)

\* C10 -- Dry-run makes no changes: while dry_run is set, no step of
\* sync_volume_to_config, clean_orphaned_files, sync_all_volumes or
\* git_add_and_commit creates, overwrites or deletes a file or directory of
\* the target tree, and none issues git add or git commit.
C10_DryRunNoChange ==
    [][dry_run => (tgt' = tgt /\ git_issued' \subseteq git_issued)]_vars

\* sync_all_volumes, in dry-run mode, has synced its first volume with
\* success; the volume holds included files that the target lacks, and they
\* were logged as "Would copy" and not copied
C10_Witness ==
    /\ dry_run
    /\ sync_pc # None
    /\ sync_pc[1].i = 2 /\ sync_pc[1].success_count = 1
    /\ IncludedNow(VolumeOrder[1]) # {}
    /\ IncludedNow(VolumeOrder[1]) \cap DOMAIN tgt[VolumeOrder[1]].files = {}


\* the ways the host path of a volume is not found: docker volume inspect
\* fails, or the mount point does not exist
Unresolved == ResolveOutcomes \ {"ok"}

\* the volumes the loop of sync_all_volumes has passed
Passed == {VolumeOrder[k] : k \in 1..(sync_pc[1].i - 1)}

\* sync_volume_to_config of a volume whose path is not found returns False,
\* without an exception, and leaves the target directory as it is
FailsWithoutChange ==
    \A v \in Volumes, outcome \in Unresolved : \A order \in WalkOrders(IncludedNow(v)) :
        \A dir_identical \in BOOLEAN :
            sync_volume_to_config(dry_run, src[v], tgt[v], outcome, order, dir_identical)
                = Done("fail", tgt[v], 0)

\* in sync_all_volumes, every volume passed either synced or was not
\* resolved, success_count counts the synced ones, and when the loop has
\* ended the value returned is True exactly when every volume synced
LoopAccounts ==
    sync_pc # None =>
        /\ sync_pc[1].synced \cap sync_pc[1].unresolved = {}
        /\ sync_pc[1].synced \cup sync_pc[1].unresolved = Passed
        /\ sync_pc[1].success_count = Cardinality(sync_pc[1].synced)
        /\ sync_pc[1].i > Len(VolumeOrder) =>
              (sync_all_volumes_returns(sync_pc[1]) <=> sync_pc[1].synced = Volumes)

\* a turn of the loop for a volume that is not resolved changes no target
\* directory, counts nothing and goes on to the next volume
UnresolvedTurn ==
    (sync_pc # None /\ sync_pc' # None /\ sync_pc' # sync_pc
        /\ VolumeOrder[sync_pc[1].i] \in sync_pc'[1].unresolved) =>
            /\ tgt' = tgt
            /\ sync_pc'[1].i = sync_pc[1].i + 1
            /\ sync_pc'[1].success_count = sync_pc[1].success_count
            /\ sync_pc'[1].synced = sync_pc[1].synced

=============================================================================
